---- MODULE Spec2Model ----
(***************************************************************************)
(* HealthMonitor diet tracker (src/main.py): the record store, the profile *)
(* store, the login gate, the record dialog and the dashboard views, as a  *)
(* state machine.                                                          *)
(*                                                                         *)
(* Text is a sequence of one-character strings.  Characters outside ASCII  *)
(* are named: "sup2" is U+00B2 (SUPERSCRIPT TWO, a digit that is not a     *)
(* decimal), "ar3" is U+0663 (ARABIC-INDIC DIGIT THREE, a decimal digit).  *)
(* A meal name is a one-symbol text: <<"breakfast">> stands for the combo  *)
(* item of line 291, and so on.                                            *)
(***************************************************************************)
EXTENDS Integers, Sequences, FiniteSets, TLC

VARIABLES
    phase,            \* where the event loop is: which window or modal dialog has the input
    today,            \* QDate.currentDate(), as a day number
    data_file,        \* DATA_FILE on disk
    config_file,      \* CONFIG_FILE on disk
    records,          \* MainWindow.records
    credentials,      \* MainWindow.credentials
    login_credentials,\* LoginWindow.credentials
    username,         \* MainWindow.username
    target_calories,  \* MainWindow.target_calories
    dialog_index,     \* the index the open RecordDialog / delete confirmation is bound to
    alert,            \* the AlertDialog the last handler showed ("none" if it showed none)
    last,             \* the last handler that ran, its inputs and its outcome
    view              \* what refresh_all last put in the widgets

vars == <<phase, today, data_file, config_file, records, credentials, login_credentials,
          username, target_calories, dialog_index, alert, last, view>>

(***************************************************************************)
(* Bounds of the model.                                                    *)
(***************************************************************************)
MaxRecords == 5

(***************************************************************************)
(* Python str: strip, isdigit, int, str(int).                              *)
(***************************************************************************)
AsciiDigits == {"0", "1", "2", "3", "4", "5", "6", "7", "8", "9"}

\* str.isdecimal() characters (Unicode category Nd): int() accepts them
DecimalChars == AsciiDigits \cup {"ar3"}

\* str.isdigit() characters: the decimals and the digits that are no decimals
DigitChars == DecimalChars \cup {"sup2"}

Whitespace == {" "}

DigitValue(c) ==
    CASE c = "0" -> 0 [] c = "1" -> 1 [] c = "2" -> 2 [] c = "3" -> 3 [] c = "4" -> 4
      [] c = "5" -> 5 [] c = "6" -> 6 [] c = "7" -> 7 [] c = "8" -> 8 [] c = "9" -> 9
      [] c = "ar3" -> 3

RECURSIVE lstrip(_)
lstrip(s) == IF s # <<>> /\ Head(s) \in Whitespace THEN lstrip(Tail(s)) ELSE s

RECURSIVE rstrip(_)
rstrip(s) ==
    IF s # <<>> /\ s[Len(s)] \in Whitespace THEN rstrip(SubSeq(s, 1, Len(s) - 1)) ELSE s

\* str.strip()
strip(s) == rstrip(lstrip(s))

\* str.isdigit(): non-empty and every character a digit
isdigit(s) == s # <<>> /\ \A i \in 1..Len(s) : s[i] \in DigitChars

\* the digits part of an int() literal: decimal digits, single underscores between them
IsDigitGroups(s) ==
    /\ s # <<>>
    /\ \A i \in 1..Len(s) : s[i] \in DecimalChars \cup {"_"}
    /\ s[1] # "_" /\ s[Len(s)] # "_"
    /\ \A i \in 1..(Len(s) - 1) : ~(s[i] = "_" /\ s[i + 1] = "_")

RECURSIVE DigitsValue(_, _)
DigitsValue(s, acc) ==
    IF s = <<>> THEN acc
    ELSE IF Head(s) = "_" THEN DigitsValue(Tail(s), acc)
    ELSE DigitsValue(Tail(s), 10 * acc + DigitValue(Head(s)))

\* int(text): [ok |-> FALSE] stands for ValueError
PyInt(text) ==
    LET s == strip(text)
        signed == s # <<>> /\ Head(s) \in {"+", "-"}
        body == IF signed THEN Tail(s) ELSE s
    IN  IF IsDigitGroups(body)
        THEN [ok |-> TRUE,
              value |-> IF signed /\ Head(s) = "-" THEN 0 - DigitsValue(body, 0)
                        ELSE DigitsValue(body, 0)]
        ELSE [ok |-> FALSE, value |-> 0]

DigitChar(d) ==
    CASE d = 0 -> "0" [] d = 1 -> "1" [] d = 2 -> "2" [] d = 3 -> "3" [] d = 4 -> "4"
      [] d = 5 -> "5" [] d = 6 -> "6" [] d = 7 -> "7" [] d = 8 -> "8" [] d = 9 -> "9"

RECURSIVE NatText(_)
NatText(n) == IF n < 10 THEN <<DigitChar(n)>> ELSE NatText(n \div 10) \o <<DigitChar(n % 10)>>

\* str(n) for an int, also the way json.dumps writes an int
IntText(n) == IF n < 0 THEN <<"-">> \o NatText(0 - n) ELSE NatText(n)

(***************************************************************************)
(* QDate: a date is its day number (days since 0001-01-01, proleptic        *)
(* Gregorian); InvalidDate is the QDate for which isValid() is false.       *)
(***************************************************************************)
InvalidDate == 0 - 1

IsLeapYear(y) == (y % 4 = 0 /\ y % 100 # 0) \/ y % 400 = 0

DaysInMonth(y, m) ==
    IF m = 2 THEN (IF IsLeapYear(y) THEN 29 ELSE 28)
    ELSE IF m \in {4, 6, 9, 11} THEN 30 ELSE 31

DaysBeforeYear(y) == 365 * (y - 1) + ((y - 1) \div 4) - ((y - 1) \div 100) + ((y - 1) \div 400)

\* the days of a common year before each month
MonthStarts == <<0, 31, 59, 90, 120, 151, 181, 212, 243, 273, 304, 334>>

\* the days of year y before its month m
DaysBeforeMonth(y, m) == MonthStarts[m] + (IF m > 2 /\ IsLeapYear(y) THEN 1 ELSE 0)

\* QDate(y, m, d)
QDate(y, m, d) == DaysBeforeYear(y) + DaysBeforeMonth(y, m) + d

RECURSIVE YearFrom(_, _)
YearFrom(n, y) == IF n <= DaysBeforeYear(y + 1) THEN y ELSE YearFrom(n, y + 1)

\* the month of the day_of_year-th day of year y, searched from month m on
RECURSIVE MonthFrom(_, _, _)
MonthFrom(day_of_year, y, m) ==
    IF m = 12 \/ day_of_year <= DaysBeforeMonth(y, m + 1) THEN m
    ELSE MonthFrom(day_of_year, y, m + 1)

\* 400 years hold 146097 days, so year(n) is never below (400 * n) \div 146097
year(n) == YearFrom(n, IF n < 366 THEN 1 ELSE (400 * n) \div 146097)

\* no month has more than 31 days, so the month is never below ((day_of_year - 1) \div 31) + 1
MonthOf(day_of_year, y) == MonthFrom(day_of_year, y, ((day_of_year - 1) \div 31) + 1)

month(n) == MonthOf(n - DaysBeforeYear(year(n)), year(n))

day(n) == n - DaysBeforeYear(year(n)) - DaysBeforeMonth(year(n), month(n))

\* the two digits of a number below 100
TwoDigits(n) == <<DigitChar(n \div 10), DigitChar(n % 10)>>

\* QDate.toString("yyyy-MM-dd")
toString(n) ==
    LET y == year(n)
        day_of_year == n - DaysBeforeYear(y)
        m == MonthOf(day_of_year, y)
        d == day_of_year - DaysBeforeMonth(y, m)
    IN  TwoDigits(y \div 100) \o TwoDigits(y % 100) \o <<"-">> \o TwoDigits(m)
        \o <<"-">> \o TwoDigits(d)

\* the value of an ASCII digit, -1 for any other character
AsciiDigitValue(c) == IF c \in AsciiDigits THEN DigitValue(c) ELSE 0 - 1

\* QDate.fromString(text, "yyyy-MM-dd").  Qt reads each numeric section as the longest
\* run of digits within the section's width that does not exceed the section's maximum.
\* A section left short is completed with a leading zero when no further digit could
\* make it a value of the section (a month 2..9, a day 4..9) and is refused otherwise
\* (any short year, a month 1, a day 1..3); a value below the minimum, a wrong
\* separator, text left over and a day the month does not have are refused.
fromString(text) ==
    LET n == Len(text)
        Digit(k) == IF k <= n THEN AsciiDigitValue(text[k]) ELSE 0 - 1
        y == 1000 * Digit(1) + 100 * Digit(2) + 10 * Digit(3) + Digit(4)
        month_used == IF Digit(6) >= 0 /\ Digit(7) >= 0 /\ 10 * Digit(6) + Digit(7) <= 12
                      THEN 2 ELSE 1
        m == IF month_used = 2 THEN 10 * Digit(6) + Digit(7) ELSE Digit(6)
        p == 6 + month_used
        day_used == IF Digit(p + 1) >= 0 /\ Digit(p + 2) >= 0
                       /\ 10 * Digit(p + 1) + Digit(p + 2) <= 31
                    THEN 2 ELSE 1
        d == IF day_used = 2 THEN 10 * Digit(p + 1) + Digit(p + 2) ELSE Digit(p + 1)
    IN  IF /\ n >= 8 /\ n <= 10
           /\ Digit(1) >= 0 /\ Digit(2) >= 0 /\ Digit(3) >= 0 /\ Digit(4) >= 0
           /\ y >= 1
           /\ text[5] = "-"
           /\ Digit(6) >= 0
           /\ (IF month_used = 2 THEN m >= 1 ELSE m >= 2)
           /\ text[p] = "-"
           /\ Digit(p + 1) >= 0
           /\ (IF day_used = 2 THEN d >= 1 ELSE d >= 4)
           /\ n = p + day_used
           /\ d <= DaysInMonth(y, m)
        THEN QDate(y, m, d) ELSE InvalidDate

isValid(date_obj) == date_obj # InvalidDate

addDays(date_obj, n) == date_obj + n

(***************************************************************************)
(* json.dumps / json.loads.  A JSON object is a function from keys to      *)
(* value tokens; a string token is the text between quotes, a number token *)
(* its decimal digits.  The program writes an int for calories, height and *)
(* weight and a str for every other key.                                   *)
(***************************************************************************)
NumericKeys == {"calories", "height", "weight"}

Quote == "\""

JsonDumpValue(k, v) == IF k \in NumericKeys THEN IntText(v) ELSE <<Quote>> \o v \o <<Quote>>

JsonLoadValue(token) ==
    IF Head(token) = Quote THEN SubSeq(token, 2, Len(token) - 1)
    ELSE IF Head(token) = "-" THEN 0 - DigitsValue(Tail(token), 0)
    ELSE DigitsValue(token, 0)

JsonDumpObject(obj) == [k \in DOMAIN obj |-> JsonDumpValue(k, obj[k])]

JsonLoadObject(fields) == [k \in DOMAIN fields |-> JsonLoadValue(fields[k])]

\* dict.get(key, default)
Get(d, k, default) == IF k \in DOMAIN d THEN d[k] ELSE default

(***************************************************************************)
(* DataManager                                                             *)
(***************************************************************************)
NoFile == [exists |-> FALSE, kind |-> "none", items |-> <<>>]

MalformedFile == [exists |-> TRUE, kind |-> "malformed", items |-> <<>>]

\* a file holding the JSON number 42, and a file whose bytes are not UTF-8
NumberFile == [exists |-> TRUE, kind |-> "number", items |-> <<"4", "2">>]

UndecodableFile == [exists |-> TRUE, kind |-> "undecodable", items |-> <<>>]

\* how load_records ends: json.loads returns whatever JSON value the file holds, only
\* json.JSONDecodeError is caught, and read_text raises UnicodeDecodeError before it
load_records_outcome(file) ==
    IF ~file.exists \/ file.kind \in {"malformed", "array"} THEN "returned_list"
    ELSE IF file.kind = "undecodable" THEN "raised"
    ELSE "returned_other"

\* the value load_records returns; "UnicodeDecodeError" stands for the exception leaving it
load_records(file) ==
    IF ~file.exists THEN <<>>
    ELSE IF file.kind = "malformed" THEN <<>>
    ELSE IF file.kind = "undecodable" THEN "UnicodeDecodeError"
    ELSE IF file.kind = "number" THEN JsonLoadValue(file.items)
    ELSE [i \in 1..Len(file.items) |-> JsonLoadObject(file.items[i])]

save_records(recs) ==
    [exists |-> TRUE, kind |-> "array",
     items |-> [i \in 1..Len(recs) |-> JsonDumpObject(recs[i])]]

(***************************************************************************)
(* ConfigManager.  The default username stands for the three characters of *)
(* line 43.                                                                *)
(***************************************************************************)
DEFAULT_CREDENTIALS ==
    [username |-> <<"c", "d", "w">>,
     password |-> <<"1", "2", "3", "4", "5", "6">>,
     height |-> 170,
     weight |-> 65]

CredentialKeys == {"username", "password", "height", "weight"}

NoConfig == [exists |-> FALSE, kind |-> "none", fields |-> <<>>]

MalformedConfig == [exists |-> TRUE, kind |-> "malformed", fields |-> <<>>]

\* dict.update of the defaults with the recognized keys of d
MergeRecognized(d) ==
    [k \in CredentialKeys |-> IF k \in DOMAIN d THEN d[k] ELSE DEFAULT_CREDENTIALS[k]]

\* a fault for C15: save_credentials writing the given object as it is
save_credentials_unfiltered(creds) ==
    [exists |-> TRUE, kind |-> "object", fields |-> JsonDumpObject(creds)]

\* the file save_credentials(creds) writes
save_credentials(creds) ==
    [exists |-> TRUE, kind |-> "object", fields |-> JsonDumpObject(MergeRecognized(creds))]

\* a profile file holding the JSON list [1, 2], and one whose bytes are not UTF-8
ListConfig == [exists |-> TRUE, kind |-> "array", fields |-> <<>>]

UndecodableConfig == [exists |-> TRUE, kind |-> "undecodable", fields |-> <<>>]

\* how load_credentials ends: only json.JSONDecodeError is caught, read_text raises
\* UnicodeDecodeError before it, and data.items() raises AttributeError on a JSON
\* value that is no object
load_credentials_outcome(file) ==
    IF ~file.exists \/ file.kind \in {"malformed", "object"} THEN "returned_profile"
    ELSE "raised"

\* the dict load_credentials() returns, or the name of the exception leaving it
load_credentials(file) ==
    IF ~file.exists THEN DEFAULT_CREDENTIALS
    ELSE IF file.kind = "malformed" THEN MergeRecognized(<<>>)
    ELSE IF file.kind = "undecodable" THEN "UnicodeDecodeError"
    ELSE IF file.kind = "array" THEN "AttributeError"
    ELSE MergeRecognized(JsonLoadObject(file.fields))

\* the file load_credentials() leaves behind
load_credentials_file(file) ==
    IF ~file.exists THEN save_credentials(DEFAULT_CREDENTIALS) ELSE file

(***************************************************************************)
(* The dashboard views: what each update_* method of refresh_all computes  *)
(* from the record list, the profile, the target and the current date.     *)
(***************************************************************************)
\* str(record.get("calories", ""))
CaloriesCell(record) == IF "calories" \in DOMAIN record THEN IntText(record["calories"]) ELSE <<>>

\* the rows populate_table puts in the full table
populate_table(recs) ==
    [row \in 1..Len(recs) |->
        <<Get(recs[row], "date", <<>>), Get(recs[row], "meal", <<>>),
          Get(recs[row], "food", <<>>), CaloriesCell(recs[row]),
          Get(recs[row], "note", <<>>)>>]

\* the number of rows of the recent table (the slice of line 925)
RecentRows == 4

\* a fault for C8: the slice taken from the front of the list, indexed[:4]
FirstIndices(n) == [k \in 1..(IF n < RecentRows THEN n ELSE RecentRows) |-> k - 1]

\* indexed[-4:]: the 0-based indices of the slice, in list order
LastIndices(n) == [k \in 1..(IF n < RecentRows THEN n ELSE RecentRows) |->
                      (IF n < RecentRows THEN 0 ELSE n - RecentRows) + k - 1]

\* reversed(seq)
reversed(seq) == [k \in 1..Len(seq) |-> seq[Len(seq) + 1 - k]]

\* a fault for C19: the buttons bound to the row number instead of the list index
refresh_recent_records_by_row(recs) ==
    LET latest == reversed(LastIndices(Len(recs)))
    IN  [row \in 1..Len(latest) |->
            [index |-> row - 1,
             cells |-> <<Get(recs[latest[row] + 1], "date", <<>>),
                         Get(recs[latest[row] + 1], "meal", <<>>),
                         Get(recs[latest[row] + 1], "food", <<>>),
                         CaloriesCell(recs[latest[row] + 1])>>]]

\* the rows refresh_recent_records builds; index is the list index _action_cell binds
refresh_recent_records(recs) ==
    LET latest == reversed(LastIndices(Len(recs)))
    IN  [row \in 1..Len(latest) |->
            [index |-> latest[row],
             cells |-> <<Get(recs[latest[row] + 1], "date", <<>>),
                         Get(recs[latest[row] + 1], "meal", <<>>),
                         Get(recs[latest[row] + 1], "food", <<>>),
                         CaloriesCell(recs[latest[row] + 1])>>]]

\* sum(record.get("calories", 0) for record in recs if record.get("date") == day_text)
RECURSIVE TotalOnDateText(_, _)
TotalOnDateText(recs, day_text) ==
    IF recs = <<>> THEN 0
    ELSE (IF "date" \in DOMAIN Head(recs) /\ Head(recs)["date"] = day_text
          THEN Get(Head(recs), "calories", 0) ELSE 0)
         + TotalOnDateText(Tail(recs), day_text)

\* the remaining / overage message of lines 970-975
CalorieDelta(target, today_total) ==
    LET remaining == target - today_total
    IN  IF remaining > 0 THEN [kind |-> "remaining", value |-> remaining]
        ELSE [kind |-> "exceeded", value |-> IF remaining < 0 THEN 0 - remaining ELSE remaining]

update_calorie_summary(recs, target, now) ==
    LET today_total == TotalOnDateText(recs, toString(now))
    IN  [maximum |-> target,
         value |-> IF today_total < target THEN today_total ELSE target,
         today_total |-> today_total,
         target |-> target,
         delta |-> CalorieDelta(target, today_total)]

\* QDate.fromString(record.get("date", ""), "yyyy-MM-dd")
RecordDate(record) == fromString(Get(record, "date", <<>>))

\* a fault for C11: the loop of update_highlights leaving the first day of the window out
RECURSIVE HighlightsLoopLateStart(_, _, _, _)
HighlightsLoopLateStart(recs, now, week_days, today_meals) ==
    IF recs = <<>> THEN [week_days |-> week_days, today_meals |-> today_meals]
    ELSE LET date_obj == fromString(Get(Head(recs), "date", <<>>))
         IN  IF ~isValid(date_obj)
             THEN HighlightsLoopLateStart(Tail(recs), now, week_days, today_meals)
             ELSE HighlightsLoopLateStart(
                    Tail(recs), now,
                    IF addDays(now, 0 - 6) < date_obj /\ date_obj <= now
                    THEN week_days \cup {toString(date_obj)} ELSE week_days,
                    IF date_obj = now THEN today_meals + 1 ELSE today_meals)

\* the loop of lines 984-992 over the records left: the week_days set and today_meals
RECURSIVE HighlightsLoop(_, _, _, _)
HighlightsLoop(recs, now, week_days, today_meals) ==
    IF recs = <<>> THEN [week_days |-> week_days, today_meals |-> today_meals]
    ELSE LET date_obj == fromString(Get(Head(recs), "date", <<>>))
         IN  IF ~isValid(date_obj) THEN HighlightsLoop(Tail(recs), now, week_days, today_meals)
             ELSE HighlightsLoop(
                    Tail(recs), now,
                    IF addDays(now, 0 - 6) <= date_obj /\ date_obj <= now
                    THEN week_days \cup {toString(date_obj)} ELSE week_days,
                    IF date_obj = now THEN today_meals + 1 ELSE today_meals)

update_highlights(recs, now) ==
    LET counted == HighlightsLoop(recs, now, {}, 0)
    IN  [week |-> Cardinality(counted.week_days),
         today |-> counted.today_meals,
         total |-> Len(recs)]

\* the loop of lines 1009-1017 over the records left: the week_days set and today_total
RECURSIVE PreferenceLoop(_, _, _, _)
PreferenceLoop(recs, now, week_days, today_total) ==
    IF recs = <<>> THEN [week_days |-> week_days, today_total |-> today_total]
    ELSE LET date_obj == fromString(Get(Head(recs), "date", <<>>))
         IN  IF ~isValid(date_obj) THEN PreferenceLoop(Tail(recs), now, week_days, today_total)
             ELSE PreferenceLoop(
                    Tail(recs), now,
                    IF addDays(now, 0 - 6) <= date_obj /\ date_obj <= now
                    THEN week_days \cup {toString(date_obj)} ELSE week_days,
                    IF date_obj = now THEN today_total + Get(Head(recs), "calories", 0)
                    ELSE today_total)

update_preference_summary(recs, now) ==
    LET counted == PreferenceLoop(recs, now, {}, 0)
    IN  [pref_total |-> Len(recs),
         pref_week |-> Cardinality(counted.week_days),
         pref_today |-> counted.today_total]

update_body_insight(recs) ==
    IF recs = <<>> THEN [empty |-> TRUE, meal |-> <<>>, food |-> <<>>, cal |-> 0]
    ELSE [empty |-> FALSE,
          meal |-> Get(recs[Len(recs)], "meal", <<"meal">>),
          food |-> Get(recs[Len(recs)], "food", <<"food">>),
          cal |-> Get(recs[Len(recs)], "calories", 0)]

\* a fault for C12: the normal class taking a BMI of exactly 24
update_body_card_late_overweight(creds) ==
    LET height == Get(creds, "height", 170)
        weight == Get(creds, "weight", 65)
    IN  [height |-> height,
         weight |-> weight,
         status |-> IF height = 0 THEN "ZeroDivisionError"
                    ELSE IF 2 * weight * 10000 < 37 * height * height THEN "underweight"
                    ELSE IF weight * 10000 <= 24 * height * height THEN "normal"
                    ELSE IF weight * 10000 < 28 * height * height THEN "overweight"
                    ELSE "obese"]

\* bmi = weight / ((height / 100) ** 2) against 18.5, 24 and 28, in exact arithmetic:
\* bmi < t  iff  weight * 10000 < t * height^2
update_body_card(creds) ==
    LET height == Get(creds, "height", 170)
        weight == Get(creds, "weight", 65)
    IN  [height |-> height,
         weight |-> weight,
         status |-> IF height = 0 THEN "ZeroDivisionError"
                    ELSE IF 2 * weight * 10000 < 37 * height * height THEN "underweight"
                    ELSE IF weight * 10000 < 24 * height * height THEN "normal"
                    ELSE IF weight * 10000 < 28 * height * height THEN "overweight"
                    ELSE "obese"]

refresh_all(recs, creds, target, now) ==
    [table |-> populate_table(recs),
     status_count |-> Len(recs),
     recent |-> refresh_recent_records(recs),
     calories |-> update_calorie_summary(recs, target, now),
     highlights |-> update_highlights(recs, now),
     preferences |-> update_preference_summary(recs, now),
     tip |-> update_body_insight(recs),
     body |-> update_body_card(creds)]

(***************************************************************************)
(* RecordDialog.  A form is what the five widgets hold when OK is clicked. *)
(***************************************************************************)
MealItems == {<<"breakfast">>, <<"lunch">>, <<"dinner">>}

\* the widgets right after _build_ui, for the add flow (record empty) and the edit flow
RecordDialogForm(record, now) ==
    [date |-> IF DOMAIN record # {} /\ Get(record, "date", <<>>) # <<>>
                 /\ isValid(fromString(record["date"]))
              THEN fromString(record["date"]) ELSE now,
     meal |-> IF DOMAIN record # {} /\ Get(record, "meal", <<"breakfast">>) \in MealItems
              THEN Get(record, "meal", <<"breakfast">>) ELSE <<"breakfast">>,
     food |-> IF DOMAIN record # {} THEN Get(record, "food", <<>>) ELSE <<>>,
     calories |-> IF DOMAIN record # {} THEN CaloriesCell(record) ELSE <<>>,
     note |-> IF DOMAIN record # {} THEN Get(record, "note", <<>>) ELSE <<>>]

\* a fault for C3: handle_accept testing the food text before trimming it
handle_accept_food_untrimmed(form) ==
    LET food == strip(form.food)
        calorie_text == strip(form.calories)
    IN  IF form.food = <<>>
        THEN [outcome |-> "rejected", alert |-> "food_missing", result_data |-> <<>>]
        ELSE IF ~isdigit(calorie_text)
        THEN [outcome |-> "rejected", alert |-> "calories_format", result_data |-> <<>>]
        ELSE IF ~PyInt(calorie_text).ok
        THEN [outcome |-> "raised", alert |-> "none", result_data |-> <<>>]
        ELSE [outcome |-> "accepted", alert |-> "none",
              result_data |-> [date |-> toString(form.date),
                               meal |-> form.meal,
                               food |-> food,
                               calories |-> PyInt(calorie_text).value,
                               note |-> strip(form.note)]]

\* the outcome of handle_accept on a form: which alert, whether int() raised, the result
handle_accept(form) ==
    LET food == strip(form.food)
        calorie_text == strip(form.calories)
    IN  IF food = <<>>
        THEN [outcome |-> "rejected", alert |-> "food_missing", result_data |-> <<>>]
        ELSE IF ~isdigit(calorie_text)
        THEN [outcome |-> "rejected", alert |-> "calories_format", result_data |-> <<>>]
        ELSE IF ~PyInt(calorie_text).ok
        THEN [outcome |-> "raised", alert |-> "none", result_data |-> <<>>]
        ELSE [outcome |-> "accepted", alert |-> "none",
              result_data |-> [date |-> toString(form.date),
                               meal |-> form.meal,
                               food |-> food,
                               calories |-> PyInt(calorie_text).value,
                               note |-> strip(form.note)]]

(***************************************************************************)
(* The inputs of the model: the dates the clock may show, what the two     *)
(* files may hold at start-up, and what the user may type.                 *)
(***************************************************************************)
Todays == {QDate(2026, 11, 4)}

\* forms handle_accept accepts: a record of today that alone meets the default target,
\* and a padded one of the first day of the week window
ValidForms(now) ==
    {[date |-> now, meal |-> <<"breakfast">>, food |-> <<" ", "a", " ">>,
      calories |-> <<"2", "0", "0", "0">>, note |-> <<>>],
     [date |-> addDays(now, 0 - 6), meal |-> <<"dinner">>, food |-> <<"b">>,
      calories |-> <<" ", "ar3", "5">>, note |-> <<" ", "n">>]}

BaseForm(now) ==
    [date |-> now, meal |-> <<"breakfast">>, food |-> <<"a">>,
     calories |-> <<"7">>, note |-> <<>>]

\* forms handle_accept does not accept: blank food, signed calories, a digit int() refuses
InvalidForms(now) ==
    {[BaseForm(now) EXCEPT !.food = <<" ">>],
     [BaseForm(now) EXCEPT !.calories = <<"+", "5">>],
     [BaseForm(now) EXCEPT !.calories = <<"sup2">>]}

DialogForms(now) == ValidForms(now) \cup InvalidForms(now)

\* every text of at most n characters of an alphabet
RECURSIVE TextsUpTo(_, _)
TextsUpTo(alphabet, n) ==
    IF n = 0 THEN {<<>>}
    ELSE TextsUpTo(alphabet, n - 1)
         \cup {Append(t, c) : t \in {u \in TextsUpTo(alphabet, n - 1) : Len(u) = n - 1},
                              c \in alphabet}

MaxTextLen == 2

FoodChars == {" ", "a"}

CalorieChars == {" ", "0", "7", "ar3", "sup2", "+", "-", "_", "a"}

\* a record file written by hand or by another program: a record of today with its day
\* written without the leading zero, and a record with keys missing whose date has a day
\* Qt does not complete
ForeignRecords(now) ==
    <<[date |-> SubSeq(toString(now), 1, 8) \o SubSeq(toString(now), 10, 10),
       meal |-> <<"snack">>, food |-> <<"x">>, calories |-> 500, note |-> <<>>],
      [date |-> <<"2", "0", "2", "6", "-", "1", "1", "-", "1">>, food |-> <<"y">>,
       calories |-> 300]>>

InitDataFiles(now) ==
    {NoFile, MalformedFile, save_records(<<>>), save_records(ForeignRecords(now))}

\* a record as handle_accept builds it
Record(date, meal, food, calories, note) ==
    [date |-> date, meal |-> meal, food |-> food, calories |-> calories, note |-> note]

\* records around the week window: every day from the day before the window to the day
\* after now, a second record on the first day of the window, and the foreign records
WeekRecords(now) ==
    [k \in 1..9 |-> Record(toString(addDays(now, k - 8)), <<"lunch">>, <<"f">>, 100 * k, <<>>)]
    \o <<Record(toString(addDays(now, 0 - 6)), <<"dinner">>, <<"g">>, 50, <<"n">>)>>
    \o ForeignRecords(now)

\* the elements of seq at the positions in chosen, from position k on, in list order
RECURSIVE Pick(_, _, _)
Pick(seq, chosen, k) ==
    IF k > Len(seq) THEN <<>>
    ELSE (IF k \in chosen THEN <<seq[k]>> ELSE <<>>) \o Pick(seq, chosen, k + 1)

\* the record files a start-up may find: none, a malformed one, one that holds a JSON
\* value that is no list, one that is not UTF-8 text, and one for each
\* selection of the records around the week window
StartDataFiles(now) ==
    {NoFile, MalformedFile, NumberFile, UndecodableFile}
    \cup {save_records(Pick(WeekRecords(now), chosen, 1)) :
             chosen \in SUBSET (1..Len(WeekRecords(now)))}

\* the values the height and weight spin boxes can hold (lines 740 and 746)
HeightRange == 100..250

WeightRange == 30..200

\* the profile files save_settings can have written in an earlier session
SettingsFiles ==
    {save_credentials([DEFAULT_CREDENTIALS EXCEPT !["height"] = height, !["weight"] = weight]) :
        height \in HeightRange, weight \in WeightRange}

InitConfigFiles ==
    {NoConfig, MalformedConfig,
     save_credentials(DEFAULT_CREDENTIALS),
     [exists |-> TRUE, kind |-> "object",
      fields |-> JsonDumpObject([password |-> <<"a", "b", "c", "d", "e", "f">>, theme |-> <<"x">>])]}

\* profile objects written by hand: every selection of the four recognized keys and an
\* unknown one, with a height inside or outside the range of the spin box
ConfigObjects ==
    {[k \in keys |->
         IF k = "height" THEN height
         ELSE IF k = "weight" THEN 80
         ELSE IF k = "username" THEN <<"n">>
         ELSE IF k = "password" THEN <<"a", "b", "c", "d", "e", "f">>
         ELSE <<"x">>] :
        keys \in SUBSET (CredentialKeys \cup {"theme"}), height \in {0, 99, 180}}

\* the profile files a start-up may find
StartConfigFiles ==
    {NoConfig, MalformedConfig, ListConfig, UndecodableConfig}
    \cup {[exists |-> TRUE, kind |-> "object", fields |-> JsonDumpObject(obj)] :
             obj \in ConfigObjects}

(***************************************************************************)
(* The state machine.                                                      *)
(***************************************************************************)
NoWindow == <<>>

NoArgs == <<>>

Did(op, outcome, args) == [op |-> op, outcome |-> outcome, args |-> args]

\* "name or fallback" of lines 262 and 389; the fallback stands for the four characters
NameOrDefault(name) == IF name # <<>> THEN name ELSE <<"j", "k", "d", "r">>

\* main(), up to the login dialog being shown
Init ==
    /\ today \in Todays
    /\ data_file \in InitDataFiles(today)
    /\ \E file \in InitConfigFiles :
          /\ config_file = load_credentials_file(file)
          /\ login_credentials = load_credentials(file)
    /\ phase = "login"
    /\ records = <<>>
    /\ credentials = NoWindow
    /\ username = <<>>
    /\ target_calories = 0
    /\ dialog_index = 0 - 1
    /\ alert = "none"
    /\ last = Did("main", "started", NoArgs)
    /\ view = NoWindow

\* the process started, main() not yet past its first load_credentials()
InitConfig ==
    /\ today \in Todays
    /\ data_file = NoFile
    /\ config_file \in StartConfigFiles
    /\ login_credentials = NoWindow
    /\ phase = "starting"
    /\ records = <<>>
    /\ credentials = NoWindow
    /\ username = <<>>
    /\ target_calories = 0
    /\ dialog_index = 0 - 1
    /\ alert = "none"
    /\ last = Did("main", "launched", NoArgs)
    /\ view = NoWindow

\* main() up to login.exec_(): the profile is loaded (and written when there was none)
\* and the login dialog opens on it
MainStarts ==
    /\ phase = "starting"
    /\ load_credentials_outcome(config_file) = "returned_profile"
    /\ login_credentials' = load_credentials(config_file)
    /\ config_file' = load_credentials_file(config_file)
    /\ phase' = "login"
    /\ last' = Did("main", "started", NoArgs)
    /\ UNCHANGED <<today, data_file, records, credentials, username, target_calories,
                   dialog_index, alert, view>>

\* main() ending with the traceback of the exception load_credentials raised
MainAborts ==
    /\ phase = "starting"
    /\ load_credentials_outcome(config_file) = "raised"
    /\ phase' = "aborted"
    /\ last' = Did("main", "raised", NoArgs)
    /\ UNCHANGED <<today, data_file, config_file, records, credentials, login_credentials,
                   username, target_calories, dialog_index, alert, view>>

\* MainWindow.target_calories at construction (line 391)
DefaultTarget == 2000

\* the main window right after MainWindow.__init__, where main() shows it
InitMain ==
    /\ today \in Todays
    /\ data_file \in InitDataFiles(today)
    /\ config_file = save_credentials(DEFAULT_CREDENTIALS)
    /\ login_credentials = load_credentials(config_file)
    /\ phase = "main"
    /\ records = load_records(data_file)
    /\ credentials = load_credentials(config_file)
    /\ username = NameOrDefault(login_credentials["username"])
    /\ target_calories = DefaultTarget
    /\ dialog_index = 0 - 1
    /\ alert = "none"
    /\ last = Did("validate_login", "accepted", NoArgs)
    /\ view = refresh_all(records, credentials, target_calories, today)

\* the record dialog opened by add_record on an empty list, or by edit_record_by_index(0)
\* on a list of one record, with the food and calories texts the user has typed into it
InitDialog ==
    /\ today \in Todays
    /\ data_file \in {NoFile, save_records(SubSeq(ForeignRecords(today), 1, 1))}
    /\ config_file = save_credentials(DEFAULT_CREDENTIALS)
    /\ login_credentials = load_credentials(config_file)
    /\ phase = "record_dialog"
    /\ records = load_records(data_file)
    /\ credentials = load_credentials(config_file)
    /\ username = NameOrDefault(login_credentials["username"])
    /\ target_calories = DefaultTarget
    /\ dialog_index = Len(records) - 1
    /\ alert = "none"
    /\ \E food_text \in TextsUpTo(FoodChars, MaxTextLen),
          calorie_text \in TextsUpTo(CalorieChars, MaxTextLen) :
          last = Did("record_dialog", "typed", <<food_text, calorie_text>>)
    /\ view = refresh_all(records, credentials, target_calories, today)

\* main() on an installation without records
InitLogin == Init /\ data_file = NoFile

\* main() with the default profile on any of the record files of StartDataFiles
InitStart ==
    /\ today \in Todays
    /\ data_file \in StartDataFiles(today)
    /\ config_file = save_credentials(DEFAULT_CREDENTIALS)
    /\ login_credentials = load_credentials(config_file)
    /\ phase = "login"
    /\ records = <<>>
    /\ credentials = NoWindow
    /\ username = <<>>
    /\ target_calories = 0
    /\ dialog_index = 0 - 1
    /\ alert = "none"
    /\ last = Did("main", "started", NoArgs)
    /\ view = NoWindow

\* main() without a record file, on any of the profile files of SettingsFiles
InitBody ==
    /\ today \in Todays
    /\ data_file = NoFile
    /\ config_file \in SettingsFiles
    /\ login_credentials = load_credentials(config_file)
    /\ phase = "login"
    /\ records = <<>>
    /\ credentials = NoWindow
    /\ username = <<>>
    /\ target_calories = 0
    /\ dialog_index = 0 - 1
    /\ alert = "none"
    /\ last = Did("main", "started", NoArgs)
    /\ view = NoWindow

\* ---- LoginWindow ----
LoginUserTexts == {<<"c", "d", "w">>, <<" ", "c", "d", "w", " ">>, <<"x">>, <<>>}

PasswordTexts ==
    {<<"1", "2", "3", "4", "5", "6">>, <<"1", "2", "3", "4", "5">>,
     <<"a", "b", "c", "d", "e", "f">>}

\* a fault for C5: validate_login without the password comparison
validate_login_any_password(creds, user_text, pass_text) ==
    LET entered == strip(user_text)
        expected_user == Get(creds, "username", <<"a", "d", "m", "i", "n">>)
    IN  IF entered # expected_user
        THEN [accepted |-> FALSE, alert |-> "login_username", authenticated_user |-> <<>>]
        ELSE [accepted |-> TRUE, alert |-> "none", authenticated_user |-> NameOrDefault(entered)]

\* the outcome of validate_login on the two line edits
validate_login(creds, user_text, pass_text) ==
    LET entered == strip(user_text)
        expected_user == Get(creds, "username", <<"a", "d", "m", "i", "n">>)
        expected_pass == Get(creds, "password", <<"1", "2", "3", "4", "5", "6">>)
    IN  IF entered # expected_user
        THEN [accepted |-> FALSE, alert |-> "login_username", authenticated_user |-> <<>>]
        ELSE IF pass_text # expected_pass
        THEN [accepted |-> FALSE, alert |-> "login_password", authenticated_user |-> <<>>]
        ELSE [accepted |-> TRUE, alert |-> "none", authenticated_user |-> NameOrDefault(entered)]

\* the login button, refused: the dialog stays open
LoginRefused(user_text, pass_text) ==
    /\ phase \in {"login", "relogin"}
    /\ ~validate_login(login_credentials, user_text, pass_text).accepted
    /\ alert' = validate_login(login_credentials, user_text, pass_text).alert
    /\ last' = Did("validate_login", "refused", <<user_text, pass_text>>)
    /\ UNCHANGED <<phase, today, data_file, config_file, records, credentials,
                   login_credentials, username, target_calories, dialog_index, view>>

\* whether MainWindow.__init__ on these files raises: load_records raising, refresh_all
\* failing on a loaded value that is no list, or update_body_card dividing by a height of 0
MainWindowRaises(records_file, profile_file) ==
    \/ load_records_outcome(records_file) # "returned_list"
    \/ update_body_card(load_credentials(profile_file)).status = "ZeroDivisionError"

\* the login button at start-up, accepted: main() builds and shows the main window
LoginAccepted(user_text, pass_text) ==
    /\ phase = "login"
    /\ validate_login(login_credentials, user_text, pass_text).accepted
    /\ ~MainWindowRaises(data_file, config_file)
    /\ records' = load_records(data_file)
    /\ credentials' = load_credentials(config_file)
    /\ username' =
          NameOrDefault(validate_login(login_credentials, user_text, pass_text).authenticated_user)
    /\ target_calories' = DefaultTarget
    /\ view' = refresh_all(records', credentials', target_calories', today)
    /\ phase' = "main"
    /\ alert' = "none"
    /\ last' = Did("validate_login", "accepted", <<user_text, pass_text>>)
    /\ UNCHANGED <<today, data_file, config_file, login_credentials, dialog_index>>

\* the login button at start-up, accepted, with files MainWindow.__init__ raises on
\* (UnicodeDecodeError from load_records, TypeError from len(self.records) in
\* populate_table, ZeroDivisionError in update_body_card): main() ends with the traceback
LoginAcceptedAborts(user_text, pass_text) ==
    /\ phase = "login"
    /\ validate_login(login_credentials, user_text, pass_text).accepted
    /\ MainWindowRaises(data_file, config_file)
    /\ phase' = "aborted"
    /\ alert' = "none"
    /\ last' = Did("MainWindow", "raised", <<user_text, pass_text>>)
    /\ UNCHANGED <<today, data_file, config_file, records, credentials, login_credentials,
                   username, target_calories, dialog_index, view>>

\* a fault for C20: the login dialog after a logout accepted whatever was typed
ReloginAcceptedUnchecked(user_text, pass_text) ==
    /\ phase = "relogin"
    /\ username' = NameOrDefault(strip(user_text))
    /\ credentials' = load_credentials(config_file)
    /\ view' = refresh_all(records, credentials', target_calories, today)
    /\ phase' = "main"
    /\ alert' = "none"
    /\ last' = Did("validate_login", "accepted", <<user_text, pass_text>>)
    /\ UNCHANGED <<today, data_file, config_file, records, login_credentials,
                   target_calories, dialog_index>>

\* the login button after a logout, accepted: handle_logout goes on at line 1063
ReloginAccepted(user_text, pass_text) ==
    /\ phase = "relogin"
    /\ validate_login(login_credentials, user_text, pass_text).accepted
    /\ username' = validate_login(login_credentials, user_text, pass_text).authenticated_user
    /\ credentials' = load_credentials(config_file)
    /\ view' = refresh_all(records, credentials', target_calories, today)
    /\ phase' = "main"
    /\ alert' = "none"
    /\ last' = Did("validate_login", "accepted", <<user_text, pass_text>>)
    /\ UNCHANGED <<today, data_file, config_file, records, login_credentials,
                   target_calories, dialog_index>>

\* the login dialog closed: main() returns, or handle_logout quits the application
LoginDismissed ==
    /\ phase \in {"login", "relogin"}
    /\ phase' = "exited"
    /\ alert' = "none"
    /\ last' = Did("validate_login", "dismissed", NoArgs)
    /\ UNCHANGED <<today, data_file, config_file, records, credentials, login_credentials,
                   username, target_calories, dialog_index, view>>

\* ---- record operations of MainWindow ----
\* a fault for C7: the bounds test letting the list length through
InRangeInclusive(index, recs) == ~(index < 0 \/ index > Len(recs))

InRange(index, recs) == ~(index < 0 \/ index >= Len(recs))

\* a fault for C6: a pop that removes the last element whatever the index
pop_last(recs, index) == [k \in 1..(Len(recs) - 1) |-> recs[k]]

\* list.pop(index)
pop(recs, index) ==
    [k \in 1..(Len(recs) - 1) |-> IF k <= index THEN recs[k] ELSE recs[k + 1]]

\* records[index] = value
setitem(recs, index, value) == [recs EXCEPT ![index + 1] = value]

\* add_record up to dialog.exec_(): the empty record dialog opens
add_record ==
    /\ phase = "main"
    /\ Len(records) < MaxRecords
    /\ phase' = "record_dialog"
    /\ dialog_index' = 0 - 1
    /\ alert' = "none"
    /\ last' = Did("add_record", "opened", NoArgs)
    /\ UNCHANGED <<today, data_file, config_file, records, credentials, login_credentials,
                   username, target_calories, view>>

\* edit_record_by_index up to dialog.exec_(): a bad index returns, a good one opens the
\* dialog filled from the record
edit_record_by_index(index) ==
    /\ phase = "main"
    /\ IF InRange(index, records)
       THEN /\ phase' = "record_dialog"
            /\ dialog_index' = index
            /\ last' = Did("edit_record_by_index", "opened", NoArgs)
       ELSE /\ last' = Did("edit_record_by_index", "ignored", NoArgs)
            /\ UNCHANGED <<phase, dialog_index>>
    /\ alert' = "none"
    /\ UNCHANGED <<today, data_file, config_file, records, credentials, login_credentials,
                   username, target_calories, view>>

\* a fault for C23: delete_record_by_index removing the record before it asks
delete_record_by_index_eager(index) ==
    /\ phase = "main"
    /\ IF InRange(index, records)
       THEN /\ records' = pop(records, index)
            /\ data_file' = save_records(records')
            /\ phase' = "confirm_delete"
            /\ dialog_index' = index
            /\ last' = Did("delete_record_by_index", "opened", NoArgs)
       ELSE /\ last' = Did("delete_record_by_index", "ignored", NoArgs)
            /\ UNCHANGED <<phase, dialog_index, records, data_file>>
    /\ alert' = "none"
    /\ UNCHANGED <<today, config_file, credentials, login_credentials,
                   username, target_calories, view>>

\* delete_record_by_index up to confirm.exec_()
delete_record_by_index(index) ==
    /\ phase = "main"
    /\ IF InRange(index, records)
       THEN /\ phase' = "confirm_delete"
            /\ dialog_index' = index
            /\ last' = Did("delete_record_by_index", "opened", NoArgs)
       ELSE /\ last' = Did("delete_record_by_index", "ignored", NoArgs)
            /\ UNCHANGED <<phase, dialog_index>>
    /\ alert' = "none"
    /\ UNCHANGED <<today, data_file, config_file, records, credentials, login_credentials,
                   username, target_calories, view>>

\* current_row(): a row of the full table, or -1 when none is current
CurrentRows(recs) == (0 - 1)..(Len(recs) - 1)

edit_selected_record(row) ==
    IF row < 0
    THEN /\ phase = "main"
         /\ alert' = "select_to_edit"
         /\ last' = Did("edit_selected_record", "no_row", NoArgs)
         /\ UNCHANGED <<phase, today, data_file, config_file, records, credentials,
                        login_credentials, username, target_calories, dialog_index, view>>
    ELSE edit_record_by_index(row)

delete_selected_record(row) ==
    IF row < 0
    THEN /\ phase = "main"
         /\ alert' = "select_to_delete"
         /\ last' = Did("delete_selected_record", "no_row", NoArgs)
         /\ UNCHANGED <<phase, today, data_file, config_file, records, credentials,
                        login_credentials, username, target_calories, dialog_index, view>>
    ELSE delete_record_by_index(row)

\* the forms the user can submit: what they type, and in the edit flow also the form as
\* the dialog filled it
SubmittableForms ==
    DialogForms(today)
    \cup (IF dialog_index >= 0 THEN {RecordDialogForm(records[dialog_index + 1], today)} ELSE {})

\* the list after an accepted dialog: append in the add flow, replace in the edit flow
AcceptedRecords(recs, index, result_data) ==
    IF index < 0 THEN Append(recs, result_data) ELSE setitem(recs, index, result_data)

\* the OK button, input refused by handle_accept: the alert shows, the dialog stays open
RecordDialogRefused(form) ==
    /\ phase = "record_dialog"
    /\ handle_accept(form).outcome = "rejected"
    /\ alert' = handle_accept(form).alert
    /\ last' = Did("handle_accept", "rejected", <<form.food, form.calories>>)
    /\ UNCHANGED <<phase, today, data_file, config_file, records, credentials,
                   login_credentials, username, target_calories, dialog_index, view>>

\* the OK button, int() raising ValueError inside the slot: PyQt either aborts the
\* process or prints the traceback and goes on with the dialog open
RecordDialogRaised(form) ==
    /\ phase = "record_dialog"
    /\ handle_accept(form).outcome = "raised"
    /\ phase' \in {"aborted", "record_dialog"}
    /\ alert' = "none"
    /\ last' = Did("handle_accept", "raised", <<form.food, form.calories>>)
    /\ UNCHANGED <<today, data_file, config_file, records, credentials,
                   login_credentials, username, target_calories, dialog_index, view>>

\* a fault for C18: the OK button storing the record without the refresh_all call
RecordDialogAcceptedStale(form) ==
    /\ phase = "record_dialog"
    /\ handle_accept(form).outcome = "accepted"
    /\ records' = AcceptedRecords(records, dialog_index, handle_accept(form).result_data)
    /\ data_file' = save_records(records')
    /\ phase' = "main"
    /\ dialog_index' = 0 - 1
    /\ alert' = "none"
    /\ last' = Did("handle_accept", "accepted", <<form.food, form.calories>>)
    /\ UNCHANGED <<today, config_file, credentials, login_credentials, username,
                   target_calories, view>>

\* the OK button, input accepted: exec_() returns Accepted and add_record /
\* edit_record_by_index go on: mutate, save, refresh
RecordDialogAccepted(form) ==
    /\ phase = "record_dialog"
    /\ handle_accept(form).outcome = "accepted"
    /\ records' = AcceptedRecords(records, dialog_index, handle_accept(form).result_data)
    /\ data_file' = save_records(records')
    /\ view' = refresh_all(records', credentials, target_calories, today)
    /\ phase' = "main"
    /\ dialog_index' = 0 - 1
    /\ alert' = "none"
    /\ last' = Did("handle_accept", "accepted", <<form.food, form.calories>>)
    /\ UNCHANGED <<today, config_file, credentials, login_credentials, username,
                   target_calories>>

\* the cancel button of the record dialog: exec_() returns Rejected
RecordDialogCancelled ==
    /\ phase = "record_dialog"
    /\ phase' = "main"
    /\ dialog_index' = 0 - 1
    /\ alert' = "none"
    /\ last' = Did("record_dialog", "cancelled", NoArgs)
    /\ UNCHANGED <<today, data_file, config_file, records, credentials, login_credentials,
                   username, target_calories, view>>

\* a fault for C1: the confirmed delete without its save_records call
DeleteConfirmedUnsaved ==
    /\ phase = "confirm_delete"
    /\ records' = pop(records, dialog_index)
    /\ view' = refresh_all(records', credentials, target_calories, today)
    /\ phase' = "main"
    /\ dialog_index' = 0 - 1
    /\ alert' = "none"
    /\ last' = Did("delete_record_by_index", "deleted", NoArgs)
    /\ UNCHANGED <<today, data_file, config_file, credentials, login_credentials, username,
                   target_calories>>

\* the delete button of the confirmation: pop, save, refresh
DeleteConfirmed ==
    /\ phase = "confirm_delete"
    /\ records' = pop(records, dialog_index)
    /\ data_file' = save_records(records')
    /\ view' = refresh_all(records', credentials, target_calories, today)
    /\ phase' = "main"
    /\ dialog_index' = 0 - 1
    /\ alert' = "none"
    /\ last' = Did("delete_record_by_index", "deleted", NoArgs)
    /\ UNCHANGED <<today, config_file, credentials, login_credentials, username,
                   target_calories>>

\* the cancel button of the confirmation
DeleteCancelled ==
    /\ phase = "confirm_delete"
    /\ phase' = "main"
    /\ dialog_index' = 0 - 1
    /\ alert' = "none"
    /\ last' = Did("delete_record_by_index", "cancelled", NoArgs)
    /\ UNCHANGED <<today, data_file, config_file, records, credentials, login_credentials,
                   username, target_calories, view>>

\* ---- settings page ----
NameTexts == {<<>>, <<" ", "n", " ">>}

TargetValues == {2000, 4000}

HeightValues == {100, 170}

WeightValues == {65, 200}

\* a fault for C22: save_settings storing the display name as the login user name
save_settings_renames(name_text, target, height, weight) ==
    /\ phase = "main"
    /\ username' = (IF strip(name_text) # <<>> THEN strip(name_text) ELSE username)
    /\ target_calories' = target
    /\ credentials' = [k \in DOMAIN credentials \cup {"height", "weight"} |->
                          IF k = "height" THEN height
                          ELSE IF k = "weight" THEN weight
                          ELSE IF k = "username" THEN username'
                          ELSE credentials[k]]
    /\ config_file' = save_credentials(credentials')
    /\ view' = refresh_all(records, credentials', target_calories', today)
    /\ alert' = "settings_saved"
    /\ last' = Did("save_settings", "saved", NoArgs)
    /\ UNCHANGED <<phase, today, data_file, records, login_credentials, dialog_index>>

\* a fault for C16: save_settings without its save_credentials call
save_settings_unsaved(name_text, target, height, weight) ==
    /\ phase = "main"
    /\ username' = (IF strip(name_text) # <<>> THEN strip(name_text) ELSE username)
    /\ target_calories' = target
    /\ credentials' = [k \in DOMAIN credentials \cup {"height", "weight"} |->
                          IF k = "height" THEN height
                          ELSE IF k = "weight" THEN weight ELSE credentials[k]]
    /\ view' = refresh_all(records, credentials', target_calories', today)
    /\ alert' = "settings_saved"
    /\ last' = Did("save_settings", "saved", NoArgs)
    /\ UNCHANGED <<phase, today, data_file, config_file, records, login_credentials,
                   dialog_index>>

\* save_settings with the four widgets holding name_text, target, height and weight
save_settings(name_text, target, height, weight) ==
    /\ phase = "main"
    /\ username' = (IF strip(name_text) # <<>> THEN strip(name_text) ELSE username)
    /\ target_calories' = target
    /\ credentials' = [k \in DOMAIN credentials \cup {"height", "weight"} |->
                          IF k = "height" THEN height
                          ELSE IF k = "weight" THEN weight ELSE credentials[k]]
    /\ config_file' = save_credentials(credentials')
    /\ view' = refresh_all(records, credentials', target_calories', today)
    /\ alert' = "settings_saved"
    /\ last' = Did("save_settings", "saved", NoArgs)
    /\ UNCHANGED <<phase, today, data_file, records, login_credentials, dialog_index>>

\* a fault for C4: the checks of handle_password_change without the confirmation
password_check_unconfirmed(stored, old, new, confirm) ==
    IF old # stored THEN "old_password_wrong"
    ELSE IF Len(new) < 6 THEN "new_password_short"
    ELSE IF new = stored THEN "new_password_same"
    ELSE "password_changed"

\* the outcome of the four checks of handle_password_change
password_check(stored, old, new, confirm) ==
    IF old # stored THEN "old_password_wrong"
    ELSE IF Len(new) < 6 THEN "new_password_short"
    ELSE IF new = stored THEN "new_password_same"
    ELSE IF new # confirm THEN "confirm_mismatch"
    ELSE "password_changed"

handle_password_change(old, new, confirm) ==
    /\ phase = "main"
    /\ alert' = password_check(Get(credentials, "password", DEFAULT_CREDENTIALS["password"]),
                               old, new, confirm)
    /\ IF alert' = "password_changed"
       THEN /\ credentials' = [k \in DOMAIN credentials \cup {"password"} |->
                                  IF k = "password" THEN new ELSE credentials[k]]
            /\ config_file' = save_credentials(credentials')
            /\ last' = Did("handle_password_change", "changed", <<old, new, confirm>>)
       ELSE /\ last' = Did("handle_password_change", "refused", <<old, new, confirm>>)
            /\ UNCHANGED <<credentials, config_file>>
    /\ UNCHANGED <<phase, today, data_file, records, login_credentials, username,
                   target_calories, dialog_index, view>>

\* ---- logout ----
handle_logout ==
    /\ phase = "main"
    /\ phase' = "confirm_logout"
    /\ alert' = "none"
    /\ last' = Did("handle_logout", "opened", NoArgs)
    /\ UNCHANGED <<today, data_file, config_file, records, credentials, login_credentials,
                   username, target_calories, dialog_index, view>>

\* a fault for C21: the login dialog after a logout built on the profile of the last
\* dialog instead of the reloaded one
LogoutConfirmedStale ==
    /\ phase = "confirm_logout"
    /\ phase' = "relogin"
    /\ alert' = "none"
    /\ last' = Did("handle_logout", "logged_out", NoArgs)
    /\ UNCHANGED <<today, data_file, config_file, records, credentials, login_credentials,
                   username, target_calories, dialog_index, view>>

\* the exit button: the window hides and a login dialog opens on the stored profile
LogoutConfirmed ==
    /\ phase = "confirm_logout"
    /\ phase' = "relogin"
    /\ login_credentials' = load_credentials(config_file)
    /\ alert' = "none"
    /\ last' = Did("handle_logout", "logged_out", NoArgs)
    /\ UNCHANGED <<today, data_file, config_file, records, credentials, username,
                   target_calories, dialog_index, view>>

LogoutCancelled ==
    /\ phase = "confirm_logout"
    /\ phase' = "main"
    /\ alert' = "none"
    /\ last' = Did("handle_logout", "cancelled", NoArgs)
    /\ UNCHANGED <<today, data_file, config_file, records, credentials, login_credentials,
                   username, target_calories, dialog_index, view>>

(***************************************************************************)
(* Specifications.  Spec is the whole application from main(); SpecRecords *)
(* is the main window and its record operations, SpecProfile the login     *)
(* gate and the settings page, SpecDialog one submission of the record     *)
(* dialog on every short food and calories text.                           *)
(***************************************************************************)
\* the indices edit_record_by_index / delete_record_by_index may be called with
IndexInputs(recs) == (0 - 1)..Len(recs)

Login ==
    \E user_text \in LoginUserTexts, pass_text \in PasswordTexts :
        \/ LoginRefused(user_text, pass_text)
        \/ LoginAccepted(user_text, pass_text)
        \/ ReloginAccepted(user_text, pass_text)

OpenEdit == \E index \in IndexInputs(records) : edit_record_by_index(index)

OpenDelete == \E index \in IndexInputs(records) : delete_record_by_index(index)

EditSelected == \E row \in CurrentRows(records) : edit_selected_record(row)

DeleteSelected == \E row \in CurrentRows(records) : delete_selected_record(row)

SubmitRefused == \E form \in SubmittableForms : RecordDialogRefused(form)

SubmitRaised == \E form \in SubmittableForms : RecordDialogRaised(form)

SubmitAccepted == \E form \in SubmittableForms : RecordDialogAccepted(form)

SaveSettings ==
    \E name_text \in NameTexts, target \in TargetValues,
       height \in HeightValues, weight \in WeightValues :
        save_settings(name_text, target, height, weight)

ChangePassword ==
    \E old \in PasswordTexts, new \in PasswordTexts, confirm \in PasswordTexts :
        handle_password_change(old, new, confirm)

NextRecords ==
    \/ add_record
    \/ OpenEdit
    \/ OpenDelete
    \/ EditSelected
    \/ DeleteSelected
    \/ SubmitRefused
    \/ SubmitRaised
    \/ SubmitAccepted
    \/ RecordDialogCancelled
    \/ DeleteConfirmed
    \/ DeleteCancelled

\* the OK button on the texts typed at the start
TypedForm == [BaseForm(today) EXCEPT !.food = last.args[1], !.calories = last.args[2]]

SubmitTypedRefused == last.outcome = "typed" /\ RecordDialogRefused(TypedForm)

SubmitTypedRaised == last.outcome = "typed" /\ RecordDialogRaised(TypedForm)

SubmitTypedAccepted == last.outcome = "typed" /\ RecordDialogAccepted(TypedForm)

NextDialog == SubmitTypedRefused \/ SubmitTypedRaised \/ SubmitTypedAccepted

\* the login button on the stored username and password
LoginStored == LoginAccepted(login_credentials["username"], login_credentials["password"])

LoginStoredAborts ==
    LoginAcceptedAborts(login_credentials["username"], login_credentials["password"])

NextStart == LoginStored \/ LoginStoredAborts \/ LoginDismissed

NextProfile ==
    \/ Login
    \/ LoginDismissed
    \/ SaveSettings
    \/ ChangePassword
    \/ handle_logout
    \/ LogoutConfirmed
    \/ LogoutCancelled

Next == NextRecords \/ NextProfile \/ LoginStoredAborts

Spec == Init /\ [][Next]_vars

SpecRecords == InitMain /\ [][NextRecords]_vars

SpecProfile == InitLogin /\ [][NextProfile]_vars

SpecDialog == InitDialog /\ [][NextDialog]_vars

SpecStart == InitStart /\ [][NextStart]_vars

SpecBody == InitBody /\ [][LoginStored]_vars

\* the application started again after it ended: a new process runs main() on the
\* files the last one left
Restart ==
    /\ phase = "exited"
    /\ load_credentials_outcome(config_file) = "returned_profile"
    /\ login_credentials' = load_credentials(config_file)
    /\ config_file' = load_credentials_file(config_file)
    /\ phase' = "login"
    /\ records' = <<>>
    /\ credentials' = NoWindow
    /\ username' = <<>>
    /\ target_calories' = 0
    /\ dialog_index' = 0 - 1
    /\ alert' = "none"
    /\ view' = NoWindow
    /\ last' = Did("main", "started", NoArgs)
    /\ UNCHANGED <<today, data_file>>

\* sessions on a profile that starts with the default password
InitSession == InitLogin /\ login_credentials["password"] = DEFAULT_CREDENTIALS["password"]

NextSession == NextProfile \/ Restart

\* the login gate and the settings page over several runs of the application
SpecSession == InitSession /\ [][NextSession]_vars

\* the number of records the runs of SpecGate keep
GateRecords == 1

NextGate == NextProfile \/ (NextRecords /\ Len(records') <= GateRecords)

\* the login gate with the settings page and the record operations behind it
SpecGate == InitLogin /\ [][NextGate]_vars

NextConfig == MainStarts \/ MainAborts \/ LoginStored \/ LoginStoredAborts \/ LoginDismissed

SpecConfig == InitConfig /\ [][NextConfig]_vars


(***************************************************************************)
(* Properties.                                                             *)
(***************************************************************************)
\* a text Python's int() turns into an integer that is not negative
ParsesNonNegative(text) == PyInt(text).ok /\ PyInt(text).value >= 0

\* a text of one or more decimal digits and nothing else
OnlyDecimalDigits(text) == text # <<>> /\ \A k \in 1..Len(text) : text[k] \in DecimalChars

\* C1: whenever an add, an edit or a delete has just completed, the record file holds the
\* serialization of the list in memory, and all the time load_records of the file gives
\* back the list in memory
C1_FileMatchesRecords ==
    /\ (last.op \in {"handle_accept", "delete_record_by_index"}
           /\ last.outcome \in {"accepted", "deleted"})
          => data_file = save_records(records)
    /\ load_records(data_file) = records

C1_Witness ==
    /\ last.op = "delete_record_by_index"
    /\ last.outcome = "deleted"
    /\ Len(records) >= 2
    /\ data_file = save_records(records)

\* C2: a submission whose food is empty after trimming or whose calories text is not a
\* non-negative integer leaves the list and the file as they were and shows an error
C2_RejectedSubmissionReported ==
    [][(/\ phase = "record_dialog"
        /\ last'.op = "handle_accept"
        /\ (strip(last'.args[1]) = <<>> \/ ~ParsesNonNegative(last'.args[2])))
       => (records' = records /\ data_file' = data_file /\ alert' # "none")]_vars

\* C3 as stated: a submission is accepted exactly when its food is non-empty after
\* trimming and its calories text parses as a non-negative integer
C3_AcceptedIffParses ==
    last.op = "handle_accept" =>
        (last.outcome = "accepted"
            <=> (strip(last.args[1]) # <<>> /\ ParsesNonNegative(last.args[2])))

\* C3 amended: a submission is accepted exactly when its food is non-empty after trimming
\* and its trimmed calories text is one or more decimal digits, with no sign and no
\* underscore; the record it places in the list has a non-empty food and an integer
\* calories value >= 0
C3_AcceptedIffDigits ==
    last.op = "handle_accept" =>
        /\ last.outcome = "accepted"
              <=> (strip(last.args[1]) # <<>> /\ OnlyDecimalDigits(strip(last.args[2])))
        /\ last.outcome = "accepted" =>
              /\ records[Len(records)]["food"] # <<>>
              /\ records[Len(records)]["food"] = strip(last.args[1])
              /\ records[Len(records)]["calories"] \in Nat
              /\ records[Len(records)]["calories"] = PyInt(last.args[2]).value

C3_Witness ==
    /\ last.op = "handle_accept"
    /\ last.outcome = "accepted"
    /\ last.args[2] = <<"ar3", "7">>
    /\ records[Len(records)]["calories"] = 37

\* the errors of the conditions of a password change that old, new and confirm fail
FailedConditions(stored, old, new, confirm) ==
    {e \in {"old_password_wrong", "new_password_short", "new_password_same",
            "confirm_mismatch"} :
        \/ e = "old_password_wrong" /\ old # stored
        \/ e = "new_password_short" /\ Len(new) < 6
        \/ e = "new_password_same" /\ new = old
        \/ e = "confirm_mismatch" /\ new # confirm}

\* C4: handle_password_change with all four conditions met sets the profile password to
\* the new one and writes the profile file; with a condition failed it shows the error
\* of a failed condition and leaves the profile in memory and the profile file as they
\* were
C4_PasswordChange ==
    [][last'.op = "handle_password_change" =>
         LET stored == credentials["password"]
             old == last'.args[1]
             new == last'.args[2]
             confirm == last'.args[3]
         IN  IF FailedConditions(stored, old, new, confirm) = {}
             THEN /\ credentials' = [credentials EXCEPT !["password"] = new]
                  /\ config_file' = save_credentials(credentials')
                  /\ load_credentials(config_file')["password"] = new
                  /\ alert' = "password_changed"
             ELSE /\ credentials' = credentials
                  /\ config_file' = config_file
                  /\ alert' \in FailedConditions(stored, old, new, confirm)]_vars

C4_Witness ==
    /\ last.op = "handle_password_change"
    /\ last.outcome = "changed"
    /\ last.args = <<<<"1", "2", "3", "4", "5", "6">>, <<"a", "b", "c", "d", "e", "f">>,
                     <<"a", "b", "c", "d", "e", "f">>>>
    /\ credentials["password"] = <<"a", "b", "c", "d", "e", "f">>
    /\ load_credentials(config_file)["password"] = <<"a", "b", "c", "d", "e", "f">>

\* C5 as stated: a login attempt is accepted exactly when the entered username equals
\* the stored one as a string and the entered password equals the stored one
C5_AcceptedIffExact ==
    (last.op = "validate_login" /\ last.outcome \in {"accepted", "refused"}) =>
        /\ last.outcome = "accepted"
              <=> (/\ last.args[1] = login_credentials["username"]
                   /\ last.args[2] = login_credentials["password"])
        /\ last.outcome = "refused" => phase \in {"login", "relogin"}

\* C5 amended: a login attempt is accepted exactly when the entered username with the
\* white space at its ends removed equals the stored username and the entered password
\* equals the stored password character by character; otherwise the login dialog stays
\* open with an error
C5_AcceptedIffTrimmedExact ==
    (last.op = "validate_login" /\ last.outcome \in {"accepted", "refused"}) =>
        /\ last.outcome = "accepted"
              <=> (/\ strip(last.args[1]) = login_credentials["username"]
                   /\ last.args[2] = login_credentials["password"])
        /\ last.outcome = "accepted" => phase = "main"
        /\ last.outcome = "refused" =>
              (phase \in {"login", "relogin"} /\ alert \in {"login_username", "login_password"})

C5_Witness ==
    /\ last.op = "validate_login"
    /\ last.outcome = "accepted"
    /\ last.args[1] = <<" ", "c", "d", "w", " ">>
    /\ phase = "main"

\* C6: a confirmed delete_record_by_index(i) with 0 <= i < n leaves a list of length
\* n - 1: the elements before position i stay where they were, the elements after it
\* move up by one, in their order
C6_DeleteRemovesOne ==
    [][(phase = "confirm_delete" /\ last'.outcome = "deleted") =>
         LET i == dialog_index
             n == Len(records)
         IN  /\ 0 <= i /\ i < n
             /\ Len(records') = n - 1
             /\ \A k \in 1..i : records'[k] = records[k]
             /\ \A k \in (i + 1)..(n - 1) : records'[k] = records[k + 1]]_vars

C6_Witness ==
    /\ last.op = "delete_record_by_index"
    /\ last.outcome = "deleted"
    /\ Len(records) = 4
    /\ phase = "main"

\* C7: edit_record_by_index and delete_record_by_index on an index below 0 or at or
\* beyond the list length, and edit_selected_record and delete_selected_record with no
\* current row, change neither the list nor the record file, and open no dialog
C7_BadIndexIgnored ==
    [][(\/ \E index \in IndexInputs(records) :
              /\ index < 0 \/ index >= Len(records)
              /\ edit_record_by_index(index) \/ delete_record_by_index(index)
        \/ edit_selected_record(0 - 1)
        \/ delete_selected_record(0 - 1))
       => (records' = records /\ data_file' = data_file /\ phase' = phase)]_vars

C7_Witness ==
    /\ last.op = "delete_record_by_index"
    /\ last.outcome = "ignored"
    /\ Len(records) >= 2
    /\ phase = "main"

\* C8: the recent view has min(n, 4) rows, and its row k (from 0) shows the record at
\* list position n - 1 - k
C8_RecentIsLastFourReversed ==
    LET n == Len(records)
        recent == view["recent"]
    IN  /\ Len(recent) = (IF n < 4 THEN n ELSE 4)
        /\ \A k \in 0..(Len(recent) - 1) :
              /\ recent[k + 1]["index"] = n - 1 - k
              /\ recent[k + 1]["cells"] =
                    <<Get(records[n - k], "date", <<>>), Get(records[n - k], "meal", <<>>),
                      Get(records[n - k], "food", <<>>), CaloriesCell(records[n - k])>>

C8_Witness ==
    /\ Len(records) = 5
    /\ Len(view["recent"]) = 4
    /\ view["recent"][1]["index"] = 4
    /\ view["recent"][4]["index"] = 1
    /\ records[5] # records[1]

\* C9: the message says "remaining" with target - today_total whenever that is >= 0,
\* zero included, and an overage of today_total - target only when it is negative
C9_RemainingWhenNonNegative ==
    LET remaining == target_calories - view["calories"]["today_total"]
    IN  IF remaining >= 0
        THEN view["calories"]["delta"] = [kind |-> "remaining", value |-> remaining]
        ELSE view["calories"]["delta"] = [kind |-> "exceeded", value |-> 0 - remaining]

\* the calories of the first k records of recs whose date text is day_text
RECURSIVE CaloriesDated(_, _, _)
CaloriesDated(recs, k, day_text) ==
    IF k = 0 THEN 0
    ELSE CaloriesDated(recs, k - 1, day_text)
         + (IF Get(recs[k], "date", <<>>) = day_text THEN Get(recs[k], "calories", 0) ELSE 0)

DateParses(record) == isValid(fromString(Get(record, "date", <<>>)))

CheckInDays(recs, now) ==
    {d \in addDays(now, 0 - 6)..now :
        \E k \in 1..Len(recs) : fromString(Get(recs[k], "date", <<>>)) = d}

\* C11: the weekly check-in count of update_highlights and of update_preference_summary
\* is the number of distinct dates d, today-6 <= d <= today, on which a record is dated;
\* it lies between 0 and 7
C11_WeeklyCheckIns ==
    phase = "main" =>
        /\ view["highlights"]["week"] = Cardinality(CheckInDays(records, today))
        /\ view["preferences"]["pref_week"] = Cardinality(CheckInDays(records, today))
        /\ view["highlights"]["week"] \in 0..7

C11_Witness ==
    /\ phase = "main"
    /\ view["highlights"]["week"] = 7
    /\ view["preferences"]["pref_week"] = 7
    /\ Len(records) = 10
    /\ \E k \in 1..Len(records) : fromString(records[k]["date"]) = addDays(today, 0 - 7)
    /\ \E k \in 1..Len(records) : fromString(records[k]["date"]) = addDays(today, 1)

\* the class whose BMI interval holds weight / (height / 100)^2, the bounds 18.5, 24 and
\* 28 and the BMI all multiplied by 2 * height^2
BmiClass(height, weight) ==
    LET bmi == 20000 * weight
        unit == height * height
    IN  CHOOSE c \in {"underweight", "normal", "overweight", "obese"} :
            \/ c = "underweight" /\ bmi < 37 * unit
            \/ c = "normal" /\ 37 * unit <= bmi /\ bmi < 48 * unit
            \/ c = "overweight" /\ 48 * unit <= bmi /\ bmi < 56 * unit
            \/ c = "obese" /\ 56 * unit <= bmi

\* C12: for every height in 100..250 and weight in 30..200 the body card shows the class
\* of BMI = weight / (height/100)^2: underweight below 18.5, normal from 18.5 and below 24,
\* overweight from 24 and below 28, obese from 28; 65/170 is normal, 90/170 obese and
\* 50/170 underweight
C12_BmiClass ==
    phase = "main" =>
        /\ credentials["height"] \in 100..250
        /\ credentials["weight"] \in 30..200
        /\ view["body"]["status"] = BmiClass(credentials["height"], credentials["weight"])
        /\ (credentials["height"] = 170 /\ credentials["weight"] = 65)
              => view["body"]["status"] = "normal"
        /\ (credentials["height"] = 170 /\ credentials["weight"] = 90)
              => view["body"]["status"] = "obese"
        /\ (credentials["height"] = 170 /\ credentials["weight"] = 50)
              => view["body"]["status"] = "underweight"

C12_Witness ==
    /\ phase = "main"
    /\ credentials["height"] = 150
    /\ credentials["weight"] = 54
    /\ view["body"]["status"] = "overweight"

\* C13: load_records always returns a sequence of records and raises nothing: the empty
\* sequence when the file is absent or does not hold a well-formed record list, the
\* stored sequence otherwise
C13_LoadAlwaysReturnsList ==
    /\ load_records_outcome(data_file) = "returned_list"
    /\ IF data_file.exists /\ data_file.kind = "array"
       THEN save_records(load_records(data_file)) = data_file
       ELSE load_records(data_file) = <<>>

\* C14: load_credentials always returns a profile of exactly the four keys: the defaults,
\* written to the file, when the file is absent; the defaults when the file cannot be
\* read as a profile; otherwise the file's value for each recognized key it has, the
\* default for each it lacks, and no other key
C14_LoadAlwaysReturnsProfile ==
    phase = "starting" =>
        /\ load_credentials_outcome(config_file) = "returned_profile"
        /\ DOMAIN load_credentials(config_file) = {"username", "password", "height", "weight"}
        /\ ~config_file.exists =>
              /\ load_credentials(config_file) = DEFAULT_CREDENTIALS
              /\ load_credentials_file(config_file).exists
              /\ JsonLoadObject(load_credentials_file(config_file).fields) = DEFAULT_CREDENTIALS
        /\ (config_file.exists /\ config_file.kind # "object") =>
              load_credentials(config_file) = DEFAULT_CREDENTIALS
        /\ (config_file.exists /\ config_file.kind = "object") =>
              \A k \in {"username", "password", "height", "weight"} :
                  load_credentials(config_file)[k] =
                      IF k \in DOMAIN config_file.fields
                      THEN JsonLoadValue(config_file.fields[k])
                      ELSE DEFAULT_CREDENTIALS[k]

\* C15: the file save_credentials writes holds an object of exactly the four keys, the
\* given value for each recognized key of the given object, the default for each one it
\* lacks, and no other key: for every hand-written profile object, and for the profile
\* save_settings and handle_password_change have just saved
C15_SavedProfileHasFourKeys ==
    /\ \A obj \in ConfigObjects :
          /\ save_credentials(obj).exists
          /\ DOMAIN save_credentials(obj).fields = {"username", "password", "height", "weight"}
          /\ \A k \in {"username", "password", "height", "weight"} :
                JsonLoadValue(save_credentials(obj).fields[k]) =
                    IF k \in DOMAIN obj THEN obj[k] ELSE DEFAULT_CREDENTIALS[k]
    /\ (last.op = "save_settings" \/ (last.op = "handle_password_change" /\ last.outcome = "changed"))
          => /\ DOMAIN config_file.fields = {"username", "password", "height", "weight"}
             /\ JsonLoadObject(config_file.fields) = credentials

C15_Witness ==
    /\ last.op = "save_settings"
    /\ credentials["password"] = <<"a", "b", "c", "d", "e", "f">>
    /\ credentials["height"] = 100
    /\ JsonLoadObject(config_file.fields) = credentials
    /\ DOMAIN config_file.fields = {"username", "password", "height", "weight"}

\* C16: once the main window exists its profile changes only in save_settings and in a
\* successful handle_password_change, each of them leaves the profile file equal to what
\* save_credentials writes for the changed profile, and after every step the profile
\* file decodes to the profile in memory
C16_ProfileWrittenThrough ==
    [][(phase = "main" \/ phase = "confirm_logout" \/ phase = "relogin") =>
         /\ credentials' # credentials =>
               \/ last'.op = "save_settings"
               \/ last'.op = "handle_password_change" /\ last'.outcome = "changed"
         /\ (\/ last'.op = "save_settings"
             \/ last'.op = "handle_password_change" /\ last'.outcome = "changed")
               => config_file' = save_credentials(credentials')
         /\ credentials' = load_credentials(config_file')
    ]_vars

C16_Witness ==
    /\ last.op = "handle_password_change"
    /\ last.outcome = "changed"
    /\ credentials["height"] = 100
    /\ credentials["weight"] = 200
    /\ config_file = save_credentials(credentials)

\* C17: every loaded profile, the one the login dialog holds and the one the main window
\* holds, has a height in 100..250 and a weight in 30..200, and the body card is never
\* computed with a zero height
C17_ProfileInRange ==
    /\ \A profile \in {login_credentials, credentials} :
          DOMAIN profile = CredentialKeys =>
             /\ profile["height"] \in HeightRange
             /\ profile["weight"] \in WeightRange
    /\ ~(last.op = "MainWindow" /\ last.outcome = "raised")

\* C18: the record list changes only in the step of an accepted submission or of a
\* confirmed deletion, that step also writes the list to the data file and recomputes
\* the views, and whenever the main window takes user actions, before and after every
\* step, its views (full table, recent table, calorie summary, highlight counts, tip and
\* the rest of refresh_all) are the ones computed from the current record list
C18_ViewsFollowRecords ==
    [][/\ records' # records =>
             /\ \/ last'.op = "handle_accept" /\ last'.outcome = "accepted"
                \/ last'.op = "delete_record_by_index" /\ last'.outcome = "deleted"
             /\ data_file' = save_records(records')
             /\ view' = refresh_all(records', credentials', target_calories', today')
             /\ phase' = "main"
       /\ phase = "main" => view = refresh_all(records, credentials, target_calories, today)
       /\ phase' = "main" =>
             view' = refresh_all(records', credentials', target_calories', today')
    ]_vars

C18_Witness ==
    /\ phase = "main"
    /\ last.op = "delete_record_by_index"
    /\ last.outcome = "deleted"
    /\ Len(records) = 2
    /\ view.status_count = 2
    /\ view.tip = update_body_insight(records)
    /\ view.recent = refresh_recent_records(records)
    /\ data_file = save_records(records)

\* C19: whenever the main window takes clicks, the index bound to the buttons of every
\* row of the recent table passes the bounds test of edit_record_by_index and
\* delete_record_by_index, and the record at that index is the one whose date, meal,
\* food and calories the row shows
C19_RecentButtonsHitTheirRecord ==
    phase = "main" =>
       \A row \in DOMAIN view.recent :
          /\ InRange(view.recent[row].index, records)
          /\ view.recent[row].cells =
                <<Get(records[view.recent[row].index + 1], "date", <<>>),
                  Get(records[view.recent[row].index + 1], "meal", <<>>),
                  Get(records[view.recent[row].index + 1], "food", <<>>),
                  CaloriesCell(records[view.recent[row].index + 1])>>

C19_Witness ==
    /\ phase = "main"
    /\ last.op = "delete_record_by_index"
    /\ last.outcome = "deleted"
    /\ Len(records) = 4
    /\ Len(view.recent) = 4
    /\ view.recent[1].index = 3
    /\ view.recent[4].index = 0
    /\ view.recent[1].cells # view.recent[4].cells

\* the operations of the main window and of the dialogs it opens
MainWindowOps ==
    {"add_record", "edit_record_by_index", "delete_record_by_index", "edit_selected_record",
     "delete_selected_record", "handle_accept", "record_dialog", "save_settings",
     "handle_password_change", "handle_logout"}

\* C20: a step of a main-window operation starts with the main window shown; the window
\* gets shown out of a login dialog only by a step in which validate_login accepted the
\* stored user name (trimmed) and password; while a login dialog is open nothing of the
\* store, the profile or the window changes; and dismissing the login dialog ends the
\* application with the data file, the profile file, the records and the profile as
\* they were
C20_LoginGate ==
    [][/\ last'.op \in MainWindowOps =>
             phase \in {"main", "record_dialog", "confirm_delete", "confirm_logout"}
       /\ (phase \in {"login", "relogin"} /\ phase' = "main") =>
             /\ last' = Did("validate_login", "accepted", last'.args)
             /\ strip(last'.args[1]) = login_credentials["username"]
             /\ last'.args[2] = login_credentials["password"]
       /\ (phase \in {"login", "relogin"} /\ phase' # "main") =>
             /\ phase' \in {phase, "exited", "aborted"}
             /\ UNCHANGED <<data_file, config_file, records, credentials, username,
                            target_calories, view>>
       /\ (last'.op = "validate_login" /\ last'.outcome = "dismissed") =>
             /\ phase \in {"login", "relogin"}
             /\ phase' = "exited"
             /\ UNCHANGED <<data_file, config_file, records, credentials>>
       /\ phase = "exited" => phase' = "exited"
    ]_vars

C20_Witness ==
    /\ phase = "exited"
    /\ last.op = "validate_login"
    /\ last.outcome = "dismissed"
    /\ Len(records) = 1
    /\ data_file = save_records(records)
    /\ credentials["password"] = <<"a", "b", "c", "d", "e", "f">>
    /\ login_credentials = credentials
    /\ config_file = save_credentials(credentials)

\* C21: a successful password change from p to q (q differs from p) leaves q as the
\* password of the profile in memory and of the profile file; no other step changes the
\* password the file holds; and every login attempt, after a logout or after a restart,
\* that enters the stored user name is accepted exactly when the entered password is
\* the one the file holds, so it is accepted with q and refused with p until the next
\* successful change
C21_NewPasswordUntilNextChange ==
    [][/\ (last'.op = "handle_password_change" /\ last'.outcome = "changed") =>
             /\ last'.args[1] = credentials["password"]
             /\ last'.args[2] # last'.args[1]
             /\ credentials'["password"] = last'.args[2]
             /\ load_credentials(config_file')["password"] = last'.args[2]
       /\ ~(last'.op = "handle_password_change" /\ last'.outcome = "changed") =>
             load_credentials(config_file')["password"] =
                load_credentials(config_file)["password"]
       /\ (/\ last'.op = "validate_login"
           /\ last'.outcome \in {"accepted", "refused"}
           /\ strip(last'.args[1]) = load_credentials(config_file)["username"]) =>
             /\ phase \in {"login", "relogin"}
             /\ (last'.outcome = "accepted"
                   <=> last'.args[2] = load_credentials(config_file)["password"])
             /\ (last'.outcome = "accepted" <=> phase' = "main")
    ]_vars

\* a new process after a change from the default password refuses the default password
C21_Witness ==
    /\ phase = "login"
    /\ credentials = NoWindow
    /\ last.op = "validate_login"
    /\ last.outcome = "refused"
    /\ last.args = <<<<"c", "d", "w">>, DEFAULT_CREDENTIALS["password"]>>
    /\ load_credentials(config_file)["password"] = <<"a", "b", "c", "d", "e", "f">>

\* the record operations of the main window and of the record dialog
RecordOps ==
    {"add_record", "edit_record_by_index", "delete_record_by_index", "edit_selected_record",
     "delete_selected_record", "handle_accept", "record_dialog"}

\* C22: a step of a record operation leaves the profile and the profile file as they
\* were; a step of handle_password_change leaves the username, height and weight of the
\* profile, in memory and in the file, the record list and the record file as they
\* were; a step of save_settings leaves the password and the username of the profile, in
\* memory and in the file, the record list and the record file as they were; and no
\* step at all changes the username the profile file holds
C22_OperationsKeepTheirFrame ==
    [][LET before == load_credentials(config_file)
           after == load_credentials(config_file')
       IN  /\ last'.op \in RecordOps =>
                 UNCHANGED <<credentials, config_file, login_credentials>>
           /\ last'.op = "handle_password_change" =>
                 /\ \A k \in {"username", "height", "weight"} :
                       credentials'[k] = credentials[k] /\ after[k] = before[k]
                 /\ UNCHANGED <<records, data_file>>
           /\ last'.op = "save_settings" =>
                 /\ \A k \in {"username", "password"} :
                       credentials'[k] = credentials[k] /\ after[k] = before[k]
                 /\ UNCHANGED <<records, data_file>>
           /\ config_file' # config_file => after["username"] = before["username"]
           /\ (DOMAIN credentials = CredentialKeys /\ DOMAIN credentials' = CredentialKeys) =>
                 credentials'["username"] = credentials["username"]
    ]_vars

C22_Witness ==
    /\ last.op = "save_settings"
    /\ Len(records) = 1
    /\ data_file = save_records(records)
    /\ credentials["height"] = 100
    /\ credentials["weight"] = 200
    /\ credentials["password"] = <<"a", "b", "c", "d", "e", "f">>
    /\ credentials["username"] = <<"c", "d", "w">>
    /\ username # credentials["username"]

\* C23: the cancel button of the record dialog, in the add and in the edit flow, and
\* the cancel button of the delete confirmation close the dialog and leave the record
\* list, the record file and the views as they were; opening a dialog changes none of
\* them either; and the list gets shorter only in the step where the delete
\* confirmation is accepted, by the one record the confirmation was opened for
C23_CancelKeepsRecords ==
    [][/\ (last'.outcome = "cancelled" /\ last'.op \in {"record_dialog", "delete_record_by_index"}) =>
             /\ phase = (IF last'.op = "record_dialog" THEN "record_dialog" ELSE "confirm_delete")
             /\ phase' = "main"
             /\ UNCHANGED <<records, data_file, view>>
       /\ last'.outcome \in {"opened", "ignored", "no_row"} => UNCHANGED <<records, data_file, view>>
       /\ Len(records') < Len(records) =>
             /\ phase = "confirm_delete"
             /\ last' = Did("delete_record_by_index", "deleted", NoArgs)
             /\ InRange(dialog_index, records)
             /\ records' = pop(records, dialog_index)
    ]_vars

C23_Witness ==
    /\ phase = "main"
    /\ last = Did("delete_record_by_index", "cancelled", NoArgs)
    /\ Len(records) = 3
    /\ data_file = save_records(records)
    /\ view.status_count = 3

====
